---- MODULE Spec2Model ----
(***************************************************************************)
(* Visa Tracker back end (mo-omen/FVT-Self-Hosted).                        *)
(*                                                                         *)
(* Two revisions of the Express server are in the repository:              *)
(*   src/server.js          JSON-body import, no export route              *)
(*   src/unnamed/part_000   multipart import, export route (backup / zip)  *)
(* Their settings, applicant and upload handlers are the same text.  The   *)
(* variable  version  says which revision is deployed.                     *)
(*                                                                         *)
(* The store is two JSON files.  A file holds a text; a text is either the *)
(* serialisation of a JSON value or not parseable.  JSON values are tagged *)
(* [t, v]: t is the JavaScript type the handlers test ("arr", "obj",       *)
(* "str", "undefined"), v the payload.  An applicant record is a function  *)
(* from the keys it has to their string values.                            *)
(***************************************************************************)
EXTENDS Integers, Sequences, FiniteSets, TLC

VARIABLES
    version,         \* the deployed revision: "server.js" or "part_000"
    applicantsFile,  \* text of data/applicants.json
    settingsFile,    \* text of data/settings.json
    uploads,         \* names of the files present under uploads/
    uuidCount,       \* how many ids crypto.randomUUID() has handed out
    uploadCount,     \* how many upload file names multer has generated
    req,             \* the request handled last: [op, id, body]
    fault,           \* the I/O fault injected into that request
    res,             \* its response: [status, type, error, body]
    ioLog,           \* the file reads and writes that request made, in order
    before,          \* the two file texts as they were when that request arrived
    download,        \* the backup a client downloaded last, and the store it was taken from
    pending,         \* per client: its request that is suspended at an await, or answered
    traffic          \* how many such requests arrived and how many file writes completed

vars == <<version, applicantsFile, settingsFile, uploads, uuidCount, uploadCount,
          req, fault, res, ioLog, before, download, pending, traffic>>

-----------------------------------------------------------------------------
(* Bounds of the model *)

\* Length of the applicant collections the export scenarios start from.
MaxExported == 2

\* Number of crypto.randomUUID() calls in one run (bounds the create requests).
MaxCreates == 2
\* Number of files multer stores in one run.
MaxUploads == 1
\* Number of requests that arrive in one run with overlapping requests.
MaxRequests == 2
\* Number of create requests in one run that looks at the order of the list.
MaxOrdered == 3

-----------------------------------------------------------------------------
(* JavaScript values *)

Arr(s) == [t |-> "arr", v |-> s]
Obj(o) == [t |-> "obj", v |-> o]
Str(s) == [t |-> "str", v |-> s]
Undefined == [t |-> "undefined", v |-> <<>>]

\* The empty object {}.
EmptyObject == [k \in {} |-> ""]

\* JavaScript truthiness, as `!x` tests it: undefined and "" are falsy, every
\* array (the empty one too) and every object is truthy.
Truthy(x) == x.t \in {"arr", "obj"} \/ (x.t = "str" /\ x.v # "")

IsArray(x) == x.t = "arr"

\* Object spread { ...a, ...b }: the keys of both, b's value where both have one.
Spread(a, b) ==
    [k \in (DOMAIN a) \cup (DOMAIN b) |-> IF k \in DOMAIN b THEN b[k] ELSE a[k]]

\* o.key, with undefined for a key the object lacks.
Prop(o, key) == IF key \in DOMAIN o THEN Str(o[key]) ELSE Undefined

\* JSON.stringify(value, null, 2): a text that parses back to the value.
JSONstringify(value) == [valid |-> TRUE, doc |-> value]

\* A text that is no JSON document.
GarbageText == [valid |-> FALSE, doc |-> Undefined]

\* JSON.parse(text): the value, or a SyntaxError.
JSONparse(text) ==
    IF text.valid THEN [ok |-> TRUE, value |-> text.doc]
                  ELSE [ok |-> FALSE, value |-> Undefined]

\* readDB(filePath): fs.readFile may reject, JSON.parse may throw.
readDB(file, readFails) ==
    IF readFails THEN [ok |-> FALSE, value |-> Undefined] ELSE JSONparse(file)

\* writeDB(filePath, data): the text fs.writeFile stores.
writeDB(data) == JSONstringify(data)

\* The n-th result of crypto.randomUUID(): never a value returned before.
randomUUID(n) == "uuid-" \o ToString(n)

-----------------------------------------------------------------------------
(* Seed documents written at start-up *)

DefaultVisaSteps ==
    <<"Offer Letter", "Labour Fees", "Labour Insurance", "Entry Permit",
      "Change Status", "Medical Test", "Emirates ID", "Contract Submition",
      "Visa Stamping">>

DefaultSettings == [id |-> "settings_1", VISA_STEPS |-> DefaultVisaSteps]

SeedApplicantsFile == JSONstringify(Arr(<<>>))
SeedSettingsFile == JSONstringify(Obj(DefaultSettings))

-----------------------------------------------------------------------------
(* Responses *)

\* res.status(s).json({ error: message })
JsonError(s, message) == [status |-> s, type |-> "json", error |-> message, body |-> <<>>]
\* res.status(s).json(body), body without an error key
Json(s, body) == [status |-> s, type |-> "json", error |-> "", body |-> body]
\* res.send(body) with Content-Disposition: attachment; kind is "attachment"
\* (application/json) or "zip" (application/zip, the piped archive).
Attachment(kind, body) == [status |-> 200, type |-> kind, error |-> "", body |-> body]
\* res.status(s).send(text)
Text(s, text) == [status |-> s, type |-> "text", error |-> "", body |-> text]

NoRequest == [op |-> "none", id |-> "", body |-> <<>>]
NoResponse == [status |-> 0, type |-> "none", error |-> "", body |-> <<>>]

\* Entries of the I/O log: readDB / writeDB on one of the two files.
Rd(file, ok) == [op |-> "read", file |-> file, ok |-> ok]
Wr(file, ok) == [op |-> "write", file |-> file, ok |-> ok]

Store == [applicants |-> applicantsFile, settings |-> settingsFile]

\* What every handler records: the request, the fault, the store it found.
Handle(op, id, body, io) ==
    /\ req' = [op |-> op, id |-> id, body |-> body]
    /\ fault' = io
    /\ before' = Store
    /\ UNCHANGED <<version, pending, traffic>>

-----------------------------------------------------------------------------
(* Request inputs *)

\* The applicants currently stored, when the file holds an array; else none.
StoredApplicants ==
    IF applicantsFile.valid /\ IsArray(applicantsFile.doc)
    THEN applicantsFile.doc.v ELSE <<>>

StoredIds ==
    {StoredApplicants[i]["id"] :
        i \in {j \in 1..Len(StoredApplicants) : "id" \in DOMAIN StoredApplicants[j]}}

\* Request bodies of POST and PUT /api/applicants: any JSON object.  A client
\* may send an id key: the empty string, a string of its own, or an id it
\* has seen in a list response.
CreateBodies ==
    { EmptyObject, [FullName |-> "Jane Doe", Email |-> "jane@example.com"], [id |-> ""] }
        \cup {[id |-> i] : i \in StoredIds}

UpdateBodies ==
    { EmptyObject, [FullName |-> "Bob"] } \cup {[id |-> i] : i \in StoredIds}

\* req.params.id: a non-empty path segment.
ParamIds == (StoredIds \ {""}) \cup {"no-such-id"}

-----------------------------------------------------------------------------
(* src/server.js, src/unnamed/part_000: applicant handlers *)

\* applicants.findIndex(a => a.id === id): 0 stands for -1.
findIndex(applicants, id) ==
    LET hits == {i \in 1..Len(applicants) : Prop(applicants[i], "id") = Str(id)}
    IN IF hits = {} THEN 0 ELSE CHOOSE i \in hits : \A j \in hits : i <= j

\* A delete that removes one record where the code removes every match
\* (applicants.splice(findIndex, 1) in place of the filter).
RECURSIVE filterOutFirst(_, _)
filterOutFirst(applicants, id) ==
    IF applicants = <<>> THEN <<>>
    ELSE IF Prop(Head(applicants), "id") = Str(id)
         THEN Tail(applicants)
         ELSE <<Head(applicants)>> \o filterOutFirst(Tail(applicants), id)

\* applicants.filter(a => a.id !== id)
RECURSIVE filterOut(_, _)
filterOut(applicants, id) ==
    IF applicants = <<>> THEN <<>>
    ELSE IF Prop(Head(applicants), "id") = Str(id)
         THEN filterOut(Tail(applicants), id)
         ELSE <<Head(applicants)>> \o filterOut(Tail(applicants), id)

\* A create that appends: applicants.push(newApplicant).
push(applicants, item) == applicants \o <<item>>

\* applicants.unshift(newApplicant)
unshift(applicants, item) == <<item>> \o applicants

\* const newApplicant = { id: crypto.randomUUID(), ...req.body }
newApplicant(uuid, body) == Spread([id |-> uuid], body)

\* An update with the spread operands swapped: { ...req.body, ...applicants[index] }.
updatedApplicantSwapped(old, body) == Spread(body, old)

\* const updatedApplicant = { ...applicants[index], ...req.body }
updatedApplicant(old, body) == Spread(old, body)

\* GET /api/applicants
ListApplicants(io) ==
    /\ Handle("list", "", <<>>, io)
    /\ LET rd == readDB(applicantsFile, io = "read")
       IN /\ res' = IF rd.ok THEN Json(200, rd.value)
                             ELSE JsonError(500, "Failed to read applicants.")
          /\ ioLog' = <<Rd("applicants", io # "read")>>
    /\ UNCHANGED <<applicantsFile, settingsFile, uploads, uuidCount, uploadCount>>

\* POST /api/applicants
CreateApplicant(body, io) ==
    /\ Handle("create", "", body, io)
    /\ LET rd == readDB(applicantsFile, io = "read")
           na == newApplicant(randomUUID(uuidCount + 1), body)
       IN IF ~rd.ok
          THEN /\ res' = JsonError(500, "Failed to add applicant.")
               /\ ioLog' = <<Rd("applicants", io # "read")>>
               /\ UNCHANGED <<applicantsFile, uuidCount>>
          ELSE /\ uuidCount' = uuidCount + 1
               /\ IF ~IsArray(rd.value)
                  THEN \* applicants.unshift is not a function
                       /\ res' = JsonError(500, "Failed to add applicant.")
                       /\ ioLog' = <<Rd("applicants", TRUE)>>
                       /\ UNCHANGED applicantsFile
                  ELSE IF io = "write"
                       THEN /\ res' = JsonError(500, "Failed to add applicant.")
                            /\ ioLog' = <<Rd("applicants", TRUE), Wr("applicants", FALSE)>>
                            /\ UNCHANGED applicantsFile
                       ELSE /\ applicantsFile' = writeDB(Arr(unshift(rd.value.v, na)))
                            /\ ioLog' = <<Rd("applicants", TRUE), Wr("applicants", TRUE)>>
                            /\ res' = Json(201, na)
    /\ UNCHANGED <<settingsFile, uploads, uploadCount>>

\* PUT /api/applicants/:id
UpdateApplicant(id, body, io) ==
    /\ Handle("update", id, body, io)
    /\ LET rd == readDB(applicantsFile, io = "read")
       IN IF ~rd.ok \/ ~IsArray(rd.value)
          THEN \* the read rejects, or findIndex is not a function
               /\ res' = JsonError(500, "Failed to update applicant.")
               /\ ioLog' = <<Rd("applicants", io # "read")>>
               /\ UNCHANGED applicantsFile
          ELSE LET applicants == rd.value.v
                   index == findIndex(applicants, id)
               IN IF index = 0
                  THEN /\ res' = JsonError(404, "Applicant not found.")
                       /\ ioLog' = <<Rd("applicants", TRUE)>>
                       /\ UNCHANGED applicantsFile
                  ELSE LET ua == updatedApplicant(applicants[index], body)
                       IN IF io = "write"
                          THEN /\ res' = JsonError(500, "Failed to update applicant.")
                               /\ ioLog' = <<Rd("applicants", TRUE), Wr("applicants", FALSE)>>
                               /\ UNCHANGED applicantsFile
                          ELSE /\ applicantsFile' =
                                      writeDB(Arr([applicants EXCEPT ![index] = ua]))
                               /\ ioLog' = <<Rd("applicants", TRUE), Wr("applicants", TRUE)>>
                               /\ res' = Json(200, ua)
    /\ UNCHANGED <<settingsFile, uploads, uuidCount, uploadCount>>

\* DELETE /api/applicants/:id
DeleteApplicant(id, io) ==
    /\ Handle("delete", id, <<>>, io)
    /\ LET rd == readDB(applicantsFile, io = "read")
       IN IF ~rd.ok \/ ~IsArray(rd.value)
          THEN \* the read rejects, or filter is not a function
               /\ res' = JsonError(500, "Failed to delete applicant.")
               /\ ioLog' = <<Rd("applicants", io # "read")>>
               /\ UNCHANGED applicantsFile
          ELSE LET initialLength == Len(rd.value.v)
                   applicants == filterOut(rd.value.v, id)
               IN IF Len(applicants) = initialLength
                  THEN /\ res' = JsonError(404, "Applicant not found.")
                       /\ ioLog' = <<Rd("applicants", TRUE)>>
                       /\ UNCHANGED applicantsFile
                  ELSE IF io = "write"
                       THEN /\ res' = JsonError(500, "Failed to delete applicant.")
                            /\ ioLog' = <<Rd("applicants", TRUE), Wr("applicants", FALSE)>>
                            /\ UNCHANGED applicantsFile
                       ELSE /\ applicantsFile' = writeDB(Arr(applicants))
                            /\ ioLog' = <<Rd("applicants", TRUE), Wr("applicants", TRUE)>>
                            /\ res' = Json(200, [message |-> "Applicant deleted successfully."])
    /\ UNCHANGED <<settingsFile, uploads, uuidCount, uploadCount>>

-----------------------------------------------------------------------------
(* src/server.js, src/unnamed/part_000: settings handlers *)

\* Request bodies of POST /api/settings.
SettingsBodies ==
    { DefaultSettings,
      [VISA_STEPS |-> <<"Labour Fees", "Offer Letter">>],
      [id |-> "settings_1", VISA_STEPS |-> <<"Offer Letter", "Labour Fees">>,
       adminPassword |-> "s3cret"] }

\* GET /api/settings
GetSettings(io) ==
    /\ Handle("getSettings", "", <<>>, io)
    /\ LET rd == readDB(settingsFile, io = "read")
       IN /\ res' = IF rd.ok THEN Json(200, rd.value)
                             ELSE JsonError(500, "Failed to read settings.")
          /\ ioLog' = <<Rd("settings", io # "read")>>
    /\ UNCHANGED <<applicantsFile, settingsFile, uploads, uuidCount, uploadCount>>

\* A settings update that merges the body onto the stored document.
savedSettingsMerged(stored, body) == Obj(Spread(stored.v, body.v))

\* The document POST /api/settings stores for a request body: the body, as
\* it is (the handler never reads the stored document).
savedSettings(stored, body) == body

\* POST /api/settings
SetSettings(body, io) ==
    /\ Handle("setSettings", "", body, io)
    /\ ioLog' = <<Wr("settings", io # "write")>>
    /\ IF io = "write"
       THEN /\ res' = JsonError(500, "Failed to save settings.")
            /\ UNCHANGED settingsFile
       ELSE /\ settingsFile' = writeDB(savedSettings(JSONparse(settingsFile).value, body))
            /\ res' = Json(200, body)
    /\ UNCHANGED <<applicantsFile, uploads, uuidCount, uploadCount>>

-----------------------------------------------------------------------------
(* src/server.js, src/unnamed/part_000: upload handler *)

\* multer's filename callback: fieldname-<Date.now()>-<random><extname>; the
\* n-th generated name differs from the ones before it.
uploadFilename(n, ext) == "file-" \o ToString(n) \o ext

\* POST /api/upload; file is the extension of the uploaded file's original
\* name, or "" when the request carries no file part.
Upload(file) ==
    /\ Handle("upload", "", file, "none")
    /\ ioLog' = <<>>
    /\ IF file = ""
       THEN /\ res' = Text(400, "No file uploaded.")
            /\ UNCHANGED <<uploads, uploadCount>>
       ELSE /\ uploadCount < MaxUploads
            /\ LET fileUrl == "/uploads/" \o uploadFilename(uploadCount + 1, file)
               IN /\ uploads' = uploads \cup {fileUrl}
                  /\ res' = Json(200, [url |-> fileUrl])
            /\ uploadCount' = uploadCount + 1
    /\ UNCHANGED <<applicantsFile, settingsFile, uuidCount>>

-----------------------------------------------------------------------------
(* Import handlers *)

\* Backup documents a client may submit: settings and applicants are each
\* absent (undefined) or some JSON value.
ImportedApplicant == [id |-> "imported-1", FullName |-> "Jane Doe"]

ImportSettingsValues ==
    { Undefined, Obj([VISA_STEPS |-> <<"Labour Fees", "Offer Letter">>]) }

ImportApplicantsValues ==
    { Undefined, Str("not-an-array"), Arr(<<>>), Arr(<<ImportedApplicant>>),
      Arr(<<[id |-> "imported-1", FullName |-> "Bob"], ImportedApplicant>>) }

ImportDocs ==
    { [settings |-> s, applicants |-> a] :
        s \in ImportSettingsValues, a \in ImportApplicantsValues }

\* server.js: if (!settings || !applicants)  -> 400
importRejectedJson(doc) == ~Truthy(doc.settings) \/ ~Truthy(doc.applicants)

\* part_000: if (!backupData.settings || !Array.isArray(backupData.applicants)) -> 400
importRejectedFile(doc) == ~Truthy(doc.settings) \/ ~IsArray(doc.applicants)

\* The two writes of an accepted import, settings first; a rejected write
\* ends the handler in its catch block.
ImportWrites(doc, io, okResponse, failResponse) ==
    IF io = "write"
    THEN /\ res' = failResponse
         /\ ioLog' = <<Wr("settings", FALSE)>>
         /\ UNCHANGED <<applicantsFile, settingsFile>>
    ELSE /\ settingsFile' = writeDB(doc.settings)
         /\ IF io = "write2"
            THEN /\ res' = failResponse
                 /\ ioLog' = <<Wr("settings", TRUE), Wr("applicants", FALSE)>>
                 /\ UNCHANGED applicantsFile
            ELSE /\ applicantsFile' = writeDB(doc.applicants)
                 /\ ioLog' = <<Wr("settings", TRUE), Wr("applicants", TRUE)>>
                 /\ res' = okResponse

\* POST /api/import of server.js: the document is the JSON request body.
ImportJson(doc, io) ==
    /\ version = "server.js"
    /\ Handle("import", "", doc, io)
    /\ IF importRejectedJson(doc)
       THEN /\ res' = JsonError(400, "Invalid import data. Missing settings or applicants.")
            /\ ioLog' = <<>>
            /\ UNCHANGED <<applicantsFile, settingsFile>>
       ELSE ImportWrites(doc, io,
                Json(200, [success |-> TRUE, message |-> "Data imported successfully."]),
                JsonError(500, "Failed to import data."))
    /\ UNCHANGED <<uploads, uuidCount, uploadCount>>

\* The multipart part backupFile of a request: none, or a text.
NoFile == [valid |-> FALSE, doc |-> Str("no file")]

\* POST /api/import of part_000: the document is the uploaded file's text.
ImportFile(file, io) ==
    /\ version = "part_000"
    /\ Handle("import", "", file, io)
    /\ IF file = NoFile
       THEN /\ res' = JsonError(400, "No backup file uploaded.")
            /\ ioLog' = <<>>
            /\ UNCHANGED <<applicantsFile, settingsFile>>
       ELSE LET backupData == JSONparse(file)
            IN IF ~backupData.ok
               THEN /\ res' = JsonError(500, "Failed to import data. The file may be corrupt or invalid.")
                    /\ ioLog' = <<>>
                    /\ UNCHANGED <<applicantsFile, settingsFile>>
               ELSE IF importRejectedFile(backupData.value)
                    THEN /\ res' = JsonError(400, "Invalid backup file format.")
                         /\ ioLog' = <<>>
                         /\ UNCHANGED <<applicantsFile, settingsFile>>
                    ELSE ImportWrites(backupData.value, io,
                             Json(200, [message |-> "Import successful. Application data has been restored."]),
                             JsonError(500, "Failed to import data. The file may be corrupt or invalid."))
    /\ UNCHANGED <<uploads, uuidCount, uploadCount>>

-----------------------------------------------------------------------------
(* src/unnamed/part_000: export handler *)

\* A membership test that looks at the last requested id only.
includesLast(ids, a) == Len(ids) > 0 /\ Prop(a, "id") = Str(ids[Len(ids)])

\* ids.includes(a.id)
includes(ids, a) == \E k \in 1..Len(ids) : Prop(a, "id") = Str(ids[k])

\* An export that filters whenever ids is given, the empty list included.
applicantsToExportNoLength(allApplicants, ids) ==
    IF Truthy(ids)
    THEN SelectSeq(allApplicants, LAMBDA a : includes(ids.v, a))
    ELSE allApplicants

\* const applicantsToExport = ids && ids.length > 0
\*     ? allApplicants.filter(a => ids.includes(a.id)) : allApplicants
applicantsToExport(allApplicants, ids) ==
    IF Truthy(ids) /\ Len(ids.v) > 0
    THEN SelectSeq(allApplicants, LAMBDA a : includes(ids.v, a))
    ELSE allApplicants

\* x[key] || fallback, for string-valued keys
OrElse(x, key, fallback) ==
    IF key \in DOMAIN x /\ x[key] # "" THEN x[key] ELSE fallback

UpperChars == "ABCDEFGHIJKLMNOPQRSTUVWXYZ"
LowerChars == "abcdefghijklmnopqrstuvwxyz"
DigitChars == "0123456789"

\* Position of the one-character string c in str, 0 when it is not there.
IndexIn(c, str) ==
    LET at == {i \in 1..Len(str) : SubSeq(str, i, i) = c}
    IN IF at = {} THEN 0 ELSE CHOOSE i \in at : \A j \in at : i <= j

toLowerCase(c) ==
    LET i == IndexIn(c, UpperChars) IN IF i = 0 THEN c ELSE SubSeq(LowerChars, i, i)

\* str.replace(/[^a-z0-9]/gi, '_').toLowerCase()  (extra = "")
\* str.replace(/[^a-z0-9.]/gi, '_').toLowerCase() (extra = ".")
RECURSIVE sanitize(_, _)
sanitize(str, extra) ==
    IF str = "" THEN ""
    ELSE LET c == SubSeq(str, 1, 1)
             kept == IndexIn(c, UpperChars \o LowerChars \o DigitChars \o extra) # 0
         IN (IF kept THEN toLowerCase(c) ELSE "_")
                \o sanitize(SubSeq(str, 2, Len(str)), extra)

\* path.extname(p): from the last "." of the last path segment, "" when the
\* segment has none or only starts with one.
extname(p) ==
    LET slashes == {i \in 1..Len(p) : SubSeq(p, i, i) = "/"}
        start == IF slashes = {} THEN 1
                 ELSE (CHOOSE i \in slashes : \A j \in slashes : j <= i) + 1
        dots == {i \in (start + 1)..Len(p) : SubSeq(p, i, i) = "."}
    IN IF dots = {} THEN ""
       ELSE SubSeq(p, CHOOSE i \in dots : \A j \in dots : j <= i, Len(p))

\* await fs.access(path.join(__dirname, doc.url)) resolves
fileExists(url) == url \in uploads

\* The seven summary lines of one applicant, and the delimiter line.
summaryOf(app) ==
    "Name: " \o OrElse(app, "FullName", "N/A") \o "\r\n"
    \o "Passport: " \o OrElse(app, "PassportNumber", "N/A") \o "\r\n"
    \o "File Number: " \o OrElse(app, "FileNumber", "N/A") \o "\r\n"
    \o "UID: " \o OrElse(app, "UIDNumber", "N/A") \o "\r\n"
    \o "Email: " \o OrElse(app, "Email", "N/A") \o "\r\n"
    \o "Phone: " \o OrElse(app, "Phone", "N/A") \o "\r\n"
    \o "Nationality: " \o OrElse(app, "Nationality", "N/A") \o "\r\n"
    \o "-----------------------\r\n"

\* txtContent after the forEach over applicantsToExport
RECURSIVE txtContent(_)
txtContent(apps) ==
    IF apps = <<>> THEN "Applicant Data Export\r\n=======================\r\n\r\n"
    ELSE txtContent(SubSeq(apps, 1, Len(apps) - 1)) \o summaryOf(apps[Len(apps)])

\* archive.file(filePath, { name: `${folderName}/${docName}${path.extname(doc.url)}` })
fileEntry(applicant, doc) ==
    [ name |-> sanitize(OrElse(applicant, "FullName", "unknown_applicant"), "")
                  \o "/" \o sanitize(OrElse(doc, "name", "unknown_doc"), ".")
                  \o extname(doc["url"]),
      source |-> doc["url"] ]

\* A document loop that gives up on an applicant at the first missing file
\* (the access check not in a try block of its own).
RECURSIVE docEntriesAbort(_, _)
docEntriesAbort(applicant, docs) ==
    IF docs = <<>> THEN <<>>
    ELSE IF fileExists(Head(docs)["url"])
         THEN <<fileEntry(applicant, Head(docs))>> \o docEntriesAbort(applicant, Tail(docs))
         ELSE <<>>

\* for (const doc of docs): a file that exists is added, a missing one is
\* warned about and skipped.
RECURSIVE docEntries(_, _)
docEntries(applicant, docs) ==
    IF docs = <<>> THEN <<>>
    ELSE (IF fileExists(Head(docs)["url"])
          THEN <<fileEntry(applicant, Head(docs))>> ELSE <<>>)
             \o docEntries(applicant, Tail(docs))

\* One applicant's turn in the document loop: nothing without Documents, and
\* nothing when JSON.parse throws or yields no array (caught and logged).
applicantEntries(applicant) ==
    IF "Documents" \notin DOMAIN applicant THEN <<>>
    ELSE LET docs == JSONparse(applicant["Documents"])
         IN IF ~docs.ok \/ ~IsArray(docs.value) THEN <<>>
            ELSE docEntries(applicant, docs.value.v)

\* for (const applicant of applicantsToExport)
RECURSIVE archiveFiles(_)
archiveFiles(apps) ==
    IF apps = <<>> THEN <<>>
    ELSE applicantEntries(Head(apps)) \o archiveFiles(Tail(apps))

\* The archive: applicant-data.txt, then the document files.
archive(apps) ==
    <<[name |-> "applicant-data.txt", source |-> txtContent(apps)]>> \o archiveFiles(apps)

\* POST /api/export
ExportData(type, ids, io) ==
    /\ version = "part_000"
    /\ Handle("export", "", [type |-> type, ids |-> ids], io)
    /\ LET allApplicants == readDB(applicantsFile, io = "read")
           settings == readDB(settingsFile, io = "read2")
           failed == JsonError(500, "Failed to export data.")
       IN IF ~allApplicants.ok
          THEN /\ res' = failed
               /\ ioLog' = <<Rd("applicants", io # "read")>>
               /\ UNCHANGED download
          ELSE /\ ioLog' = <<Rd("applicants", TRUE), Rd("settings", io # "read2")>>
               /\ IF \/ ~settings.ok
                     \/ ~IsArray(allApplicants.value)
                           /\ ((Truthy(ids) /\ Len(ids.v) > 0) \/ type = "zip")
                  THEN \* the second read rejects; or the stored document is no
                       \* array and filter / forEach is not a function
                       /\ res' = failed
                       /\ UNCHANGED download
                  ELSE LET toExport ==
                               IF IsArray(allApplicants.value)
                               THEN Arr(applicantsToExport(allApplicants.value.v, ids))
                               ELSE allApplicants.value
                       IN IF type = "backup"
                          THEN LET backupData == [settings |-> settings.value,
                                                  applicants |-> toExport]
                               IN /\ res' = Attachment("attachment", JSONstringify(backupData))
                                  /\ download' = [taken |-> TRUE, ids |-> ids,
                                                  text |-> JSONstringify(backupData),
                                                  from |-> Store]
                          ELSE /\ res' = IF type = "zip"
                                         THEN Attachment("zip", archive(toExport.v))
                                         ELSE JsonError(400, "Invalid export type.")
                               /\ UNCHANGED download
    /\ UNCHANGED <<applicantsFile, settingsFile, uploads, uuidCount, uploadCount>>

-----------------------------------------------------------------------------
(* src/server.js, src/unnamed/part_000: start-up *)

\* app.listen's callback on a machine whose data directory is empty: both
\* seed files are written.  revision is the server file that is started.
FreshStart(revision) ==
    /\ version' = revision
    /\ applicantsFile' = SeedApplicantsFile
    /\ settingsFile' = SeedSettingsFile
    /\ uploads' = {}
    /\ uuidCount' = 0
    /\ uploadCount' = 0
    /\ req' = [op |-> "start", id |-> "", body |-> <<>>]
    /\ fault' = "none"
    /\ res' = NoResponse
    /\ ioLog' = <<Wr("applicants", TRUE), Wr("settings", TRUE)>>
    /\ before' = [applicants |-> SeedApplicantsFile, settings |-> SeedSettingsFile]
    /\ UNCHANGED <<pending, traffic>>

-----------------------------------------------------------------------------
(* Specifications *)

\* No request is suspended and none has been.
Clients == {1, 2}
Idle == [pc |-> "idle"]
NoPending == [c \in Clients |-> Idle]
NoTraffic == [arrived |-> 0, written |-> 0]

NoDownload == [taken |-> FALSE, ids |-> Undefined, text |-> GarbageText,
               from |-> [applicants |-> GarbageText, settings |-> GarbageText]]

\* The state after app.listen's callback on an empty data directory.
Seeded ==
    /\ applicantsFile = SeedApplicantsFile
    /\ settingsFile = SeedSettingsFile
    /\ uploads = {}
    /\ uuidCount = 0
    /\ uploadCount = 0
    /\ req = NoRequest
    /\ fault = "none"
    /\ res = NoResponse
    /\ ioLog = <<>>
    /\ before = [applicants |-> SeedApplicantsFile, settings |-> SeedSettingsFile]
    /\ download = NoDownload
    /\ pending = NoPending
    /\ traffic = NoTraffic

\* The applicant registry.  Its four handlers are the same text in both
\* revisions.  A request that meets an I/O fault ends in the catch block
\* whatever its body is, so faults are injected into one body per route.
\* Import (of server.js) brings in what no create can: a stored document
\* that is no array, and a record without an id.
RegistryImportDocs ==
    { [settings |-> Obj(DefaultSettings), applicants |-> Str("not-an-array")],
      [settings |-> Obj(DefaultSettings), applicants |-> Arr(<<[FullName |-> "Bob"]>>)] }

Init ==
    /\ version = "server.js"
    /\ Seeded

Next ==
    \/ \E io \in {"none", "read"} : ListApplicants(io) /\ UNCHANGED download
    \/ \E body \in CreateBodies :
           uuidCount < MaxCreates /\ CreateApplicant(body, "none") /\ UNCHANGED download
    \/ \E io \in {"read", "write"} :
           uuidCount < MaxCreates /\ CreateApplicant(EmptyObject, io) /\ UNCHANGED download
    \/ \E id \in ParamIds, body \in UpdateBodies :
           UpdateApplicant(id, body, "none") /\ UNCHANGED download
    \/ \E id \in ParamIds, io \in {"read", "write"} :
           UpdateApplicant(id, EmptyObject, io) /\ UNCHANGED download
    \/ \E id \in ParamIds, io \in {"none", "read", "write"} :
           DeleteApplicant(id, io) /\ UNCHANGED download

    \/ \E doc \in RegistryImportDocs : ImportJson(doc, "none") /\ UNCHANGED download

Spec == Init /\ [][Next]_vars

\* The document store: settings, import and upload, on either revision.
ImportFiles == {NoFile, GarbageText} \cup {JSONstringify(d) : d \in ImportDocs}

InitStore ==
    /\ version \in {"server.js", "part_000"}
    /\ Seeded

NextStore ==
    \/ \E io \in {"none", "read"} : ListApplicants(io) /\ UNCHANGED download
    \/ \E io \in {"none", "read"} : GetSettings(io) /\ UNCHANGED download
    \/ \E body \in SettingsBodies, io \in {"none", "write"} :
           SetSettings(Obj(body), io) /\ UNCHANGED download
    \/ \E file \in {"", ".pdf"} : Upload(file) /\ UNCHANGED download
    \/ \E doc \in ImportDocs, io \in {"none", "write", "write2"} :
           ImportJson(doc, io) /\ UNCHANGED download
    \/ \E file \in ImportFiles, io \in {"none", "write", "write2"} :
           ImportFile(file, io) /\ UNCHANGED download

SpecStore == InitStore /\ [][NextStore]_vars

\* Export and restore (part_000).  The store a scenario starts from is any
\* store a run of the server can have left behind: an array of applicant
\* records with their Documents references, either settings document, and
\* any of the once uploaded files still on disk.  A backup that was
\* downloaded can be restored on a fresh deployment of either revision.
Doc(name, url) == [name |-> name, url |-> url]

KnownUploads == {"/uploads/file-1.pdf", "/uploads/file-2.JPG"}

ExportRecords ==
    { [id |-> "a-1", FullName |-> "Jane Doe", Email |-> "jane@example.com",
       Documents |-> JSONstringify(Arr(<<Doc("Passport Copy", "/uploads/file-1.pdf"),
                                         Doc("photo.1", "/uploads/file-2.JPG")>>))],
      [id |-> "a-2", FullName |-> "Bob",
       Documents |-> JSONstringify(Arr(<<[url |-> "/uploads/file-2.JPG"]>>))],
      [id |-> "a-3", Documents |-> GarbageText],
      [id |-> "a-4", FullName |-> "Bob"] }

ExportStores ==
    UNION { {s \in [1..n -> ExportRecords] : \A i, j \in 1..n : i # j => s[i] # s[j]} :
            n \in 0..MaxExported }

ExportIds == { Undefined, Arr(<<>>), Arr(<<"a-1">>), Arr(<<"a-2", "no-such-id">>) }

InitExport ==
    /\ version = "part_000"
    /\ applicantsFile \in {writeDB(Arr(s)) : s \in ExportStores}
    /\ settingsFile \in {SeedSettingsFile,
                         writeDB(Obj([VISA_STEPS |-> <<"Labour Fees", "Offer Letter">>]))}
    /\ uploads \in SUBSET KnownUploads
    /\ uuidCount = 0
    /\ uploadCount = 0
    /\ req = NoRequest
    /\ fault = "none"
    /\ res = NoResponse
    /\ ioLog = <<>>
    /\ before = Store
    /\ download = NoDownload
    /\ pending = NoPending
    /\ traffic = NoTraffic

NextExport ==
    \/ \E type \in {"backup", "zip", "csv"}, ids \in ExportIds : ExportData(type, ids, "none")
    \/ \E io \in {"read", "read2"} : ExportData("backup", Undefined, io)
    \/ \E revision \in {"server.js", "part_000"} :
           download.taken /\ req.op = "export" /\ FreshStart(revision) /\ UNCHANGED download
    \/ download.taken /\ ImportFile(download.text, "none") /\ UNCHANGED download
    \/ download.taken /\ ImportJson(JSONparse(download.text).value, "none")
           /\ UNCHANGED download

SpecExport == InitExport /\ [][NextExport]_vars


-----------------------------------------------------------------------------
(* src/server.js: applicant handlers, one step per await                   *)
(*                                                                         *)
(* Node runs a handler until its next await and then serves other events.  *)
(* A mutating applicant handler has two awaits: readDB and writeDB.        *)
(*   Arrive     the handler starts and readDB is pending                   *)
(*   ReadDone   the file has been read; the handler decides and mutates    *)
(*              its array in memory, and writeDB is pending                *)
(*   WriteDone  the file has been written; the response is sent            *)
(* A file read or write is one step: readFile and writeFile of these small *)
(* files are taken as atomic, as the document store's contract has it.     *)

\* The array the handler holds after `await readDB(APPLICANTS_FILE)`: the
\* one it read, whatever the file holds by the time it writes.
heldCollectionReread(snapshot, onDisk) == onDisk
heldCollection(snapshot, onDisk) == snapshot

\* The record a create or update request makes out of the array it holds.
Made(op, id, body, uuid, applicants) ==
    IF op = "create" THEN newApplicant(uuid, body)
    ELSE updatedApplicant(applicants[findIndex(applicants, id)], body)

\* The array the handler writes: unshift, index assignment, or filter.
Mutated(op, id, body, uuid, applicants) ==
    IF op = "create" THEN unshift(applicants, newApplicant(uuid, body))
    ELSE IF op = "update"
         THEN IF findIndex(applicants, id) = 0 THEN applicants
              ELSE [applicants EXCEPT ![findIndex(applicants, id)] =
                                          updatedApplicant(@, body)]
         ELSE filterOut(applicants, id)

\* The id is not in the array the handler read: index === -1, or the filter
\* removed nothing.
NotFound(op, id, applicants) ==
    /\ op # "create"
    /\ IF op = "update" THEN findIndex(applicants, id) = 0
       ELSE Len(filterOut(applicants, id)) = Len(applicants)

\* The 2xx / 404 response of a mutating request.
Acknowledgement(op, id, body, uuid, applicants) ==
    IF NotFound(op, id, applicants) THEN JsonError(404, "Applicant not found.")
    ELSE IF op = "delete" THEN Json(200, [message |-> "Applicant deleted successfully."])
    ELSE Json(IF op = "create" THEN 201 ELSE 200, Made(op, id, body, uuid, applicants))

Elsewhere == <<version, settingsFile, uploads, uploadCount,
               req, fault, res, ioLog, before, download>>

\* A client sends a mutating request; the handler awaits readDB.
Arrive(c, op, id, body) ==
    /\ pending[c].pc \in {"idle", "done"}
    /\ traffic.arrived < MaxRequests
    /\ pending' = [pending EXCEPT ![c] = [pc |-> "reading", op |-> op, id |-> id,
                                          body |-> body]]
    /\ traffic' = [traffic EXCEPT !.arrived = @ + 1]
    /\ UNCHANGED <<applicantsFile, uuidCount>>
    /\ UNCHANGED Elsewhere

\* readDB resolves: the handler holds the array, answers 404 at once or
\* goes on to await writeDB.  crypto.randomUUID() is called here.
ReadDone(c) ==
    /\ pending[c].pc = "reading"
    /\ LET p == pending[c]
           snapshot == readDB(applicantsFile, FALSE).value.v
           uuid == IF p.op = "create" THEN randomUUID(uuidCount + 1) ELSE ""
       IN /\ p.op = "create" => uuidCount < MaxCreates
          /\ uuidCount' = IF p.op = "create" THEN uuidCount + 1 ELSE uuidCount
          /\ pending' = [pending EXCEPT ![c] =
                 [pc |-> IF NotFound(p.op, p.id, snapshot) THEN "done" ELSE "writing",
                  op |-> p.op, id |-> p.id, body |-> p.body, uuid |-> uuid,
                  snapshot |-> snapshot, readAt |-> traffic.written, wroteAt |-> 0,
                  over |-> <<>>,
                  response |-> IF NotFound(p.op, p.id, snapshot)
                               THEN Acknowledgement(p.op, p.id, p.body, uuid, snapshot)
                               ELSE NoResponse]]
    /\ UNCHANGED <<applicantsFile, traffic>>
    /\ UNCHANGED Elsewhere

\* writeDB resolves: the file is the handler's array; the response is sent.
\* over  keeps the collection the write replaced.
WriteDone(c) ==
    /\ pending[c].pc = "writing"
    /\ LET p == pending[c]
           onDisk == readDB(applicantsFile, FALSE).value.v
           applicants == heldCollection(p.snapshot, onDisk)
       IN /\ applicantsFile' = writeDB(Arr(Mutated(p.op, p.id, p.body, p.uuid, applicants)))
          /\ pending' = [pending EXCEPT ![c] =
                 [p EXCEPT !.pc = "done",
                           !.wroteAt = traffic.written + 1,
                           !.over = onDisk,
                           !.response = Acknowledgement(p.op, p.id, p.body, p.uuid,
                                                        applicants)]]
    /\ traffic' = [traffic EXCEPT !.written = @ + 1]
    /\ UNCHANGED uuidCount
    /\ UNCHANGED Elsewhere

\* Overlapping requests on a registry that already holds records.
RaceRecords == << [id |-> "a-1", FullName |-> "Jane Doe"], [id |-> "a-2", FullName |-> "Bob"] >>

RaceStores == {SubSeq(RaceRecords, 1, n) : n \in 0..2}

RaceIds == {"a-1", "a-2", "no-such-id"}

RaceBodies == {[FullName |-> "Bob"], [Email |-> "jane@example.com"]}

InitRace ==
    /\ version = "server.js"
    /\ applicantsFile \in {writeDB(Arr(s)) : s \in RaceStores}
    /\ settingsFile = SeedSettingsFile
    /\ uploads = {}
    /\ uuidCount = 0
    /\ uploadCount = 0
    /\ req = NoRequest
    /\ fault = "none"
    /\ res = NoResponse
    /\ ioLog = <<>>
    /\ before = Store
    /\ download = NoDownload
    /\ pending = NoPending
    /\ traffic = NoTraffic

NextRace ==
    \/ \E c \in Clients, body \in RaceBodies \cup {EmptyObject} : Arrive(c, "create", "", body)
    \/ \E c \in Clients, id \in RaceIds, body \in RaceBodies : Arrive(c, "update", id, body)
    \/ \E c \in Clients, id \in RaceIds : Arrive(c, "delete", id, <<>>)
    \/ \E c \in Clients : ReadDone(c)
    \/ \E c \in Clients : WriteDone(c)

SpecRace == InitRace /\ [][NextRace]_vars

-----------------------------------------------------------------------------
(* src/server.js, src/unnamed/part_000: import handler, one step per await *)
(*                                                                         *)
(* The import handler validates synchronously and then awaits two writes.  *)
(*   ImportArrive     the handler starts; a rejected request is answered,  *)
(*                    an accepted one awaits its first writeDB             *)
(*   ImportWriteDone  the pending writeDB resolves or rejects; the handler *)
(*                    awaits the next write, or answers                    *)
(* Between the steps the server serves other requests.                     *)

\* The writes of an accepted import, applicants first.
writeOrderSwapped(doc) ==
    << [file |-> "applicants", data |-> doc.applicants],
       [file |-> "settings", data |-> doc.settings] >>

\* await writeDB(SETTINGS_FILE, settings); await writeDB(APPLICANTS_FILE, applicants)
writeOrder(doc) ==
    << [file |-> "settings", data |-> doc.settings],
       [file |-> "applicants", data |-> doc.applicants] >>

\* The handler's synchronous part: the document it takes from the request
\* (JSON body in server.js, uploaded file in part_000) and, when it does not
\* go on to write, its answer.
ImportDecision(payload) ==
    IF version = "server.js"
    THEN IF importRejectedJson(payload)
         THEN [accepted |-> FALSE, doc |-> payload, response |->
                  JsonError(400, "Invalid import data. Missing settings or applicants.")]
         ELSE [accepted |-> TRUE, doc |-> payload, response |-> NoResponse]
    ELSE IF payload = NoFile
         THEN [accepted |-> FALSE, doc |-> <<>>, response |->
                  JsonError(400, "No backup file uploaded.")]
         ELSE IF ~JSONparse(payload).ok
              THEN [accepted |-> FALSE, doc |-> <<>>, response |->
                       JsonError(500, "Failed to import data. The file may be corrupt or invalid.")]
              ELSE IF importRejectedFile(JSONparse(payload).value)
                   THEN [accepted |-> FALSE, doc |-> JSONparse(payload).value, response |->
                            JsonError(400, "Invalid backup file format.")]
                   ELSE [accepted |-> TRUE, doc |-> JSONparse(payload).value,
                         response |-> NoResponse]

ImportSucceeded ==
    IF version = "server.js"
    THEN Json(200, [success |-> TRUE, message |-> "Data imported successfully."])
    ELSE Json(200, [message |-> "Import successful. Application data has been restored."])

ImportFailed ==
    IF version = "server.js"
    THEN JsonError(500, "Failed to import data.")
    ELSE JsonError(500, "Failed to import data. The file may be corrupt or invalid.")

\* POST /api/import arrives.  found  keeps the store the request found.
ImportArrive(payload, io) ==
    /\ pending[1].pc \in {"idle", "done"}
    /\ traffic.arrived < MaxRequests
    /\ LET decision == ImportDecision(payload)
       IN pending' = [pending EXCEPT ![1] =
              [pc |-> IF decision.accepted THEN "writing" ELSE "done",
               op |-> "import", accepted |-> decision.accepted, doc |-> decision.doc,
               io |-> IF decision.accepted THEN io ELSE "none",
               found |-> Store, next |-> 1, response |-> decision.response]]
    /\ traffic' = [traffic EXCEPT !.arrived = @ + 1]
    /\ UNCHANGED <<applicantsFile, settingsFile, uploads, uuidCount, uploadCount,
                   version, req, fault, res, ioLog, before, download>>

\* The pending writeDB of the import settles.
ImportWriteDone ==
    /\ pending[1].pc = "writing"
    /\ LET p == pending[1]
           w == writeOrder(p.doc)[p.next]
           rejects == (p.io = "write" /\ p.next = 1) \/ (p.io = "write2" /\ p.next = 2)
       IN IF rejects
          THEN /\ pending' = [pending EXCEPT ![1] =
                      [p EXCEPT !.pc = "done", !.response = ImportFailed]]
               /\ UNCHANGED <<applicantsFile, settingsFile, traffic>>
          ELSE /\ applicantsFile' = IF w.file = "applicants" THEN writeDB(w.data)
                                    ELSE applicantsFile
               /\ settingsFile' = IF w.file = "settings" THEN writeDB(w.data)
                                  ELSE settingsFile
               /\ traffic' = [traffic EXCEPT !.written = @ + 1]
               /\ pending' = [pending EXCEPT ![1] =
                      IF p.next = 2
                      THEN [p EXCEPT !.pc = "done", !.response = ImportSucceeded]
                      ELSE [p EXCEPT !.next = 2]]
    /\ UNCHANGED <<uploads, uuidCount, uploadCount,
                   version, req, fault, res, ioLog, before, download>>

\* Imports on either revision while other clients read the store.
ImportRaceDocs ==
    { [settings |-> Undefined, applicants |-> Arr(<<>>)],
      [settings |-> Obj([VISA_STEPS |-> <<"Labour Fees", "Offer Letter">>]),
       applicants |-> Arr(<<ImportedApplicant>>)],
      [settings |-> Obj([VISA_STEPS |-> <<"Labour Fees", "Offer Letter">>]),
       applicants |-> Str("not-an-array")],
      [settings |-> Obj(DefaultSettings),
       applicants |-> Arr(<<[id |-> "imported-1", FullName |-> "Bob"], ImportedApplicant>>)] }

ImportPayloads ==
    IF version = "server.js" THEN ImportRaceDocs
    ELSE {NoFile, GarbageText} \cup {JSONstringify(d) : d \in ImportRaceDocs}

InitImport ==
    /\ version \in {"server.js", "part_000"}
    /\ Seeded

NextImport ==
    \/ \E payload \in ImportPayloads, io \in {"none", "write", "write2"} :
           ImportArrive(payload, io)
    \/ ImportWriteDone
    \/ ListApplicants("none") /\ UNCHANGED download
    \/ GetSettings("none") /\ UNCHANGED download

SpecImport == InitImport /\ [][NextImport]_vars

\* The order of the list: create, update, delete and list requests, one
\* after the other, on a freshly seeded registry.  Request bodies carry no
\* id key, so that a record's id tells when it was created.
OrderBodies == {EmptyObject, [FullName |-> "Bob"]}

InitOrder ==
    /\ version = "server.js"
    /\ Seeded

NextOrder ==
    \/ \E io \in {"none", "read"} : ListApplicants(io) /\ UNCHANGED download
    \/ \E body \in OrderBodies, io \in {"none", "write"} :
           uuidCount < MaxOrdered /\ CreateApplicant(body, io) /\ UNCHANGED download
    \/ \E id \in ParamIds, io \in {"none", "write"} :
           UpdateApplicant(id, [FullName |-> "Bob"], io) /\ UNCHANGED download
    \/ \E id \in ParamIds, io \in {"none", "write"} :
           DeleteApplicant(id, io) /\ UNCHANGED download

SpecOrder == InitOrder /\ [][NextOrder]_vars

-----------------------------------------------------------------------------
(* Properties of the applicant registry (specification Spec) *)

\* A file text that holds an array, and the array's elements.
IsCollection(file) == file.valid /\ IsArray(file.doc)
Records(file) == file.doc.v

\* What GET /api/applicants answers from the current store.
Listed == readDB(applicantsFile, FALSE).value.v

HasId(a, id) == "id" \in DOMAIN a /\ a["id"] = id

\* C1: after a successful create, the list holds exactly one record made of
\* the submitted fields and the id the server generated for this request,
\* that id is non-empty and no other record has it, and the records stored
\* before follow it unchanged.
C1_CreateStoresFieldsUnderFreshId ==
    (req.op = "create" /\ res.status = 201) =>
        LET generated == randomUUID(uuidCount)
            expected == Spread(req.body, [id |-> generated])
            matching == {i \in 1..Len(Listed) : Listed[i] = expected}
        IN /\ Cardinality(matching) = 1
           /\ generated # ""
           /\ \A i \in 1..Len(Listed) :
                  i \notin matching => ~HasId(Listed[i], generated)
           /\ Len(Listed) = Len(Records(before.applicants)) + 1
           /\ \A i \in 1..Len(Records(before.applicants)) :
                  Listed[i + 1] = Records(before.applicants)[i]

\* C2: an update whose read and write succeed finds the first record with
\* the requested id; it answers 200 and the list shows that record, at its
\* position, with the body's keys replaced and its other keys as they were,
\* and every other record as it was; with no such record it answers 404 and
\* the store is as before.
C2_UpdateOverlaysInPlace ==
    (req.op = "update" /\ fault = "none" /\ IsCollection(before.applicants)) =>
        LET old == Records(before.applicants)
            hits == {i \in 1..Len(old) : HasId(old[i], req.id)}
        IN IF hits = {}
           THEN /\ res.status = 404
                /\ res.error = "Applicant not found."
                /\ Store = before
           ELSE LET i == CHOOSE h \in hits : \A j \in hits : h <= j
                IN /\ res.status = 200
                   /\ IsCollection(applicantsFile)
                   /\ Len(Listed) = Len(old)
                   /\ \A j \in 1..Len(old) : j # i => Listed[j] = old[j]
                   /\ DOMAIN Listed[i] = (DOMAIN old[i]) \cup (DOMAIN req.body)
                   /\ \A k \in DOMAIN req.body : Listed[i][k] = req.body[k]
                   /\ \A k \in (DOMAIN old[i]) \ (DOMAIN req.body) :
                          Listed[i][k] = old[i][k]
                   /\ res.body = Listed[i]
                   /\ settingsFile = before.settings

\* C2 witness: with two records stored, an update of the name alone has
\* replaced the name and kept the e-mail address.
C2_Witness ==
    /\ req.op = "update" /\ res.status = 200
    /\ req.body = [FullName |-> "Bob"]
    /\ Len(Records(before.applicants)) = 2
    /\ \E i \in 1..Len(Listed) :
          /\ HasId(Listed[i], req.id)
          /\ Records(before.applicants)[i] # Listed[i]
          /\ "Email" \in DOMAIN Listed[i]
          /\ Listed[i]["FullName"] = "Bob"

\* C3: a delete whose read and write succeed answers 200 when a record has
\* the requested id, and the list is then the old list without the records of
\* that id, the others in their order; when no record has the id it answers
\* 404, writes nothing and leaves the store as it was (so a repeated delete
\* changes nothing).
C3_DeleteRemovesOrAnswers404 ==
    (req.op = "delete" /\ fault = "none" /\ IsCollection(before.applicants)) =>
        LET old == Records(before.applicants)
        IN IF \E i \in 1..Len(old) : HasId(old[i], req.id)
           THEN /\ res.status = 200
                /\ IsCollection(applicantsFile)
                /\ Listed = SelectSeq(old, LAMBDA a : ~HasId(a, req.id))
                /\ \A i \in 1..Len(Listed) : ~HasId(Listed[i], req.id)
                /\ settingsFile = before.settings
           ELSE /\ res.status = 404
                /\ res.error = "Applicant not found."
                /\ \A i \in 1..Len(ioLog) : ioLog[i].op # "write"
                /\ Store = before

\* C3 witness: a delete has removed one of two records and kept the other.
C3_Witness ==
    /\ req.op = "delete" /\ res.status = 200
    /\ Len(Records(before.applicants)) = 2
    /\ Len(Listed) = 1

\* C7: no two records of the stored collection have the same id.
C7_IdsUnique ==
    IsCollection(applicantsFile) =>
        \A i, j \in 1..Len(Listed) :
            (i # j /\ "id" \in DOMAIN Listed[i] /\ "id" \in DOMAIN Listed[j])
                => Listed[i]["id"] # Listed[j]["id"]

\* C8: create stores the id the server generated, whatever the body holds,
\* and a successful update leaves the record it changed under the id it was
\* requested by.
C8_IdServerAssignedAndImmutable ==
    /\ (req.op = "create" /\ res.status = 201) =>
           /\ HasId(Listed[1], randomUUID(uuidCount))
           /\ HasId(res.body, randomUUID(uuidCount))
    /\ (req.op = "update" /\ res.status = 200) =>
           /\ HasId(res.body, req.id)
           /\ findIndex(Listed, req.id) = findIndex(Records(before.applicants), req.id)

-----------------------------------------------------------------------------
(* Properties of overlapping applicant requests (specification SpecRace) *)

\* The request of client c was answered after it wrote.
Wrote(c) == pending[c].pc = "done" /\ pending[c].wroteAt > 0

\* Clients a and b both read the collection before either wrote; a wrote
\* first, b last.
Raced(a, b) ==
    /\ a # b /\ Wrote(a) /\ Wrote(b)
    /\ pending[a].wroteAt < pending[b].wroteAt
    /\ pending[b].readAt < pending[a].wroteAt

\* No write came between the read and the write of client c's request.
NotInterleaved(c) == Wrote(c) /\ pending[c].wroteAt = pending[c].readAt + 1

\* The array client c's request makes of a collection.
ChangeOf(c, collection) ==
    Mutated(pending[c].op, pending[c].id, pending[c].body, pending[c].uuid, collection)

\* The change client c's request was acknowledged for is in a collection:
\* the created or updated record is there, the deleted id is not.
ChangePresent(c, collection) ==
    IF pending[c].op = "delete"
    THEN \A i \in 1..Len(collection) : ~HasId(collection[i], pending[c].id)
    ELSE \E i \in 1..Len(collection) : collection[i] = pending[c].response.body

\* Two requests that make the same change: the same delete, or updates of
\* one record to the same result.
SameChange(a, b) ==
    /\ pending[a].op = pending[b].op
    /\ pending[a].op # "create"
    /\ pending[a].id = pending[b].id
    /\ pending[a].response = pending[b].response

Success(c) == pending[c].response.status \in {200, 201} /\ pending[c].response.error = ""

\* What holds of any two raced writers and of any writer that was not
\* interleaved: both answers are 2xx, the file is the last writer's change
\* of the array it read; a write with no write between its read and itself
\* is the request's change of the collection it replaced, so that nothing
\* acknowledged before it is dropped, and its own change is in the file it
\* wrote.
LaterWriteWins ==
    /\ \A a, b \in Clients : Raced(a, b) =>
          /\ Success(a) /\ Success(b)
          /\ Listed = ChangeOf(b, pending[b].snapshot)
    /\ \A c \in Clients : NotInterleaved(c) =>
          /\ Success(c)
          /\ pending[c].snapshot = pending[c].over
          /\ ChangePresent(c, ChangeOf(c, pending[c].over))
          /\ pending[c].wroteAt = traffic.written => Listed = ChangeOf(c, pending[c].over)

\* C12 as stated: of two mutating requests that both read before either
\* wrote, both are acknowledged 2xx, the stored collection is the later
\* writer's result computed from what it read, and the earlier writer's
\* change is absent from it; a request that is not interleaved leaves every
\* acknowledged change in the stored collection.
C12_LostUpdateAsStated ==
    /\ LaterWriteWins
    /\ \A a, b \in Clients : Raced(a, b) => ~ChangePresent(a, Listed)

\* C12, amended: as stated, but the earlier writer's change is absent from
\* the stored collection only if the collection the later writer read did
\* not hold it already and the later request does not make the same change
\* itself (two deletes of one id, two equal updates of one record).
C12_LostUpdate ==
    /\ LaterWriteWins
    /\ \A a, b \in Clients :
          (Raced(a, b) /\ ~ChangePresent(a, pending[b].snapshot) /\ ~SameChange(a, b))
              => ~ChangePresent(a, Listed)

\* C12 witness: a create and a delete of a stored record both read the two
\* stored records, the create wrote first and the delete last; both were
\* acknowledged and the created record is not in the file.
C12_Witness ==
    \E a, b \in Clients :
        /\ Raced(a, b)
        /\ pending[a].op = "create" /\ pending[b].op = "delete"
        /\ pending[a].response.status = 201 /\ pending[b].response.status = 200
        /\ Len(pending[b].snapshot) = 2
        /\ Len(Listed) = 1
        /\ ~ChangePresent(a, Listed)

\* C12 witness for requests that do not interleave: the second request read
\* after the first wrote, and both changes are in the file.
C12_WitnessSerial ==
    \E a, b \in Clients :
        /\ a # b /\ NotInterleaved(a) /\ NotInterleaved(b)
        /\ pending[a].wroteAt <= pending[b].readAt
        /\ pending[a].op = "create" /\ pending[b].op = "update"
        /\ ChangePresent(a, Listed) /\ ChangePresent(b, Listed)
        /\ Len(Listed) = 3

-----------------------------------------------------------------------------
(* Properties of an import in steps (specification SpecImport) *)

\* The import that is in flight or was answered last, when it was accepted.
Importing == pending[1].pc # "idle" /\ pending[1].accepted

ImportedSettings == writeDB(pending[1].doc.settings)
ImportedApplicants == writeDB(pending[1].doc.applicants)

\* The store holds the imported settings with the pre-import applicants.
SettingsOnly ==
    /\ settingsFile = ImportedSettings
    /\ applicantsFile = pending[1].found.applicants

\* C13: an accepted import writes settings first and applicants second and
\* undoes nothing: between the two writes, and after an applicants write
\* that failed (answered 500), the store holds the imported settings with
\* the pre-import applicants; when both writes succeed it is answered 200
\* and holds both imported documents; when the settings write fails it is
\* answered 500 and the store is as found; at no step are the applicants
\* changed while the settings are not the imported ones.
C13_ImportSettingsFirstNoRollback ==
    Importing =>
        LET p == pending[1]
        IN /\ (p.pc = "writing" /\ p.next = 1) => Store = p.found
           /\ (p.pc = "writing" /\ p.next = 2) => SettingsOnly
           /\ (p.pc = "done" /\ p.io = "write") =>
                 /\ p.response.status = 500 /\ p.response.error # ""
                 /\ Store = p.found
           /\ (p.pc = "done" /\ p.io = "write2") =>
                 /\ p.response.status = 500 /\ p.response.error # ""
                 /\ SettingsOnly
           /\ (p.pc = "done" /\ p.io = "none") =>
                 /\ p.response.status = 200
                 /\ settingsFile = ImportedSettings
                 /\ applicantsFile = ImportedApplicants
           /\ applicantsFile # p.found.applicants => settingsFile = ImportedSettings

\* C13 witness: the applicants write of an import failed after its settings
\* write; the answer is 500 and the store is mixed: imported settings that
\* differ from the ones found, found applicants that differ from the
\* imported ones.
C13_Witness ==
    /\ Importing /\ pending[1].pc = "done" /\ pending[1].io = "write2"
    /\ pending[1].response.status = 500
    /\ SettingsOnly
    /\ settingsFile # pending[1].found.settings
    /\ applicantsFile # ImportedApplicants
    /\ Len(Listed) = 1

\* C13 witness for the concurrent reader: between the two writes of an
\* import GET /api/settings was answered with the imported settings while
\* the applicants file still held the pre-import collection.
C13_WitnessReader ==
    /\ Importing /\ pending[1].pc = "writing" /\ pending[1].next = 2
    /\ req.op = "getSettings" /\ res.status = 200
    /\ res.body = pending[1].doc.settings
    /\ before.settings = ImportedSettings
    /\ before.settings # pending[1].found.settings
    /\ before.applicants = pending[1].found.applicants
    /\ before.applicants # ImportedApplicants

-----------------------------------------------------------------------------
(* Properties of the order of the list (specification SpecOrder) *)

\* The number of the create request that made a record: its id is the n-th
\* id crypto.randomUUID() handed out.
CreationNumber(a) == CHOOSE n \in 1..uuidCount : a["id"] = randomUUID(n)

\* The ids of a collection, in its order.
IdsOf(collection) == [k \in 1..Len(collection) |-> collection[k]["id"]]

\* C14: the stored applicant sequence is newest-first.  A successful create
\* puts the new record at the head of the collection it found; a successful
\* update leaves every record at its position; a successful delete leaves
\* the remaining records in their order; a failed request leaves the file
\* as it was.  So every stored record was made by a create, no two by the
\* same one, a record nearer the head was created later, and list answers
\* the records in that order.
C14_NewestFirst ==
    /\ IsCollection(applicantsFile)
    /\ \A i \in 1..Len(Listed) :
          \E n \in 1..uuidCount : HasId(Listed[i], randomUUID(n))
    /\ \A i, j \in 1..Len(Listed) :
          i < j => CreationNumber(Listed[i]) > CreationNumber(Listed[j])
    /\ (req.op = "create" /\ res.status = 201) =>
          /\ Head(Listed) = res.body
          /\ Tail(Listed) = Records(before.applicants)
    /\ (req.op = "update" /\ res.status = 200) =>
          /\ IdsOf(Listed) = IdsOf(Records(before.applicants))
          /\ \A k \in 1..Len(Listed) :
                Listed[k] = IF HasId(Listed[k], req.id) THEN res.body
                            ELSE Records(before.applicants)[k]
    /\ (req.op = "delete" /\ res.status = 200) =>
          Listed = SelectSeq(Records(before.applicants), LAMBDA a : ~HasId(a, req.id))
    /\ (req.op = "list" /\ res.status = 200) => res.body = Arr(Listed)
    /\ (req.op \in {"create", "update", "delete"} /\ res.status \notin {200, 201}) =>
          applicantsFile = before.applicants
    /\ req.op = "list" => applicantsFile = before.applicants

\* C14 witness: three records were created and the second was deleted; list
\* answers the third created record, which carries a name, before the first.
C14_Witness ==
    /\ req.op = "list" /\ res.status = 200
    /\ uuidCount = 3
    /\ IdsOf(res.body.v) = <<randomUUID(3), randomUUID(1)>>
    /\ "FullName" \in DOMAIN res.body.v[1]
    /\ res.body.v[1]["FullName"] = "Bob"

\* C14 witness for an update in place: the record in the middle of three
\* was updated and is still in the middle.
C14_WitnessUpdate ==
    /\ req.op = "update" /\ res.status = 200
    /\ req.id = randomUUID(2)
    /\ IdsOf(Listed) = <<randomUUID(3), randomUUID(2), randomUUID(1)>>
    /\ Listed[2] = res.body
    /\ Listed[2] # Records(before.applicants)[2]

-----------------------------------------------------------------------------
(* Properties of the document store (specification SpecStore) *)

\* The backup document of the last import request: the JSON body (server.js)
\* or the parsed text of the uploaded file (part_000).
ImportedDoc == IF version = "server.js" THEN req.body ELSE JSONparse(req.body).value

ImportCarriesDoc == req.op = "import" /\ (version = "part_000" => req.body.valid)

\* Settings missing, or applicants not a sequence.
Malformed(doc) == doc.settings = Undefined \/ ~IsArray(doc.applicants)

\* C4: an import whose settings is missing or whose applicants is not a
\* sequence is answered 400 and leaves both files as they were.
C4_MalformedImportRejected ==
    (ImportCarriesDoc /\ Malformed(ImportedDoc)) =>
        /\ res.status = 400
        /\ Store = before

\* What GET /api/settings answers from the current store.
GotSettings == readDB(settingsFile, FALSE).value

\* C6: after a settings update whose write succeeds, get returns exactly the
\* submitted document: the same keys, VISA_STEPS in the submitted order, no
\* key of the previous document the body lacks; the applicants file is as
\* before.
C6_SettingsSetReplaces ==
    (req.op = "setSettings" /\ fault = "none") =>
        /\ res.status = 200
        /\ res.body = req.body
        /\ GotSettings = req.body
        /\ DOMAIN GotSettings.v = DOMAIN req.body.v
        /\ GotSettings.v["VISA_STEPS"] = req.body.v["VISA_STEPS"]
        /\ applicantsFile = before.applicants

\* C6 witness: a permuted step list without id and password has replaced a
\* document that had both.
C6_Witness ==
    /\ req.op = "setSettings" /\ res.status = 200
    /\ req.body.v = [VISA_STEPS |-> <<"Labour Fees", "Offer Letter">>]
    /\ before.settings.doc.t = "obj"
    /\ "adminPassword" \in DOMAIN before.settings.doc.v
    /\ before.settings.doc.v["VISA_STEPS"] = <<"Offer Letter", "Labour Fees">>
    /\ GotSettings.v["VISA_STEPS"] = <<"Labour Fees", "Offer Letter">>

\* C9: a failing request is answered with a JSON body {error: message}, and
\* its status is 404 for an applicant id that is not stored, 400 for a
\* malformed import or an upload without a file, 500 for a failed read or
\* write or an unparseable document.
C9_FailuresAreJsonErrors ==
    res.status >= 400 =>
        /\ res.type = "json"
        /\ res.error # ""
        /\ res.status \in {400, 404, 500}
        /\ res.status = 404 => req.op \in {"update", "delete"}
        /\ res.status = 400 => req.op \in {"import", "upload"}

-----------------------------------------------------------------------------
(* Properties of export and restore (specification SpecExport) *)

\* The request of the last import carried the downloaded backup: as the
\* uploaded file (part_000) or, parsed, as the JSON body (server.js).
RestoredDownload ==
    /\ req.op = "import"
    /\ download.taken
    /\ req.body = IF version = "part_000" THEN download.text
                  ELSE JSONparse(download.text).value

\* C5: a backup exported without an id filter (ids absent or empty) and then
\* imported, all writes succeeding, is answered 200 and leaves both files
\* equal to the files the backup was taken from.
C5_BackupRoundTrip ==
    (RestoredDownload /\ fault = "none" /\ download.ids \in {Undefined, Arr(<<>>)}) =>
        /\ res.status = 200
        /\ Store = download.from
        /\ Listed = Records(download.from.applicants)
        /\ GotSettings = JSONparse(download.from.settings).value

\* C5 witness: a freshly seeded server.js deployment has taken back two
\* applicants and a settings document that is not the seed.
C5_Witness ==
    /\ RestoredDownload /\ res.status = 200
    /\ version = "server.js"
    /\ before = [applicants |-> SeedApplicantsFile, settings |-> SeedSettingsFile]
    /\ download.ids = Undefined
    /\ Len(Listed) = 2
    /\ settingsFile # SeedSettingsFile
    /\ Store = download.from

\* The documents an applicant references: its Documents text, parsed.
ReferencedDocs(app) ==
    IF "Documents" \in DOMAIN app /\ app["Documents"].valid
           /\ IsArray(app["Documents"].doc)
    THEN app["Documents"].doc.v ELSE <<>>

\* The applicants of the last export request, and <<i, j>> for the j-th
\* document of the i-th of them.
Exported == applicantsToExport(Records(applicantsFile), req.body.ids)

References ==
    UNION { {<<i, j>> : j \in 1..Len(ReferencedDocs(Exported[i]))} : i \in 1..Len(Exported) }

UrlOf(r) == ReferencedDocs(Exported[r[1]])[r[2]]["url"]

OnDisk == {r \in References : UrlOf(r) \in uploads}

\* C10: a zip export whose reads succeed is answered 200 with an archive that
\* starts with the text summary of the exported applicants and then holds,
\* in applicant and document order, exactly one file for every referenced
\* document whose file is on disk; missing files are left out and the store
\* is unchanged.
C10_ZipSkipsMissingFiles ==
    (req.op = "export" /\ req.body.type = "zip" /\ fault = "none") =>
        /\ res.status = 200
        /\ res.type = "zip"
        /\ res.error = ""
        /\ res.body[1] = [name |-> "applicant-data.txt", source |-> txtContent(Exported)]
        /\ Len(res.body) = 1 + Cardinality(OnDisk)
        /\ \A r \in OnDisk :
              LET position == Cardinality({q \in OnDisk :
                                  q[1] < r[1] \/ (q[1] = r[1] /\ q[2] <= r[2])})
              IN res.body[1 + position].source = UrlOf(r)
        /\ Store = before

\* C10 witness: the first document of an applicant is missing, a later one
\* of the same applicant and one of a later applicant are in the archive.
C10_Witness ==
    /\ req.op = "export" /\ req.body.type = "zip" /\ res.status = 200
    /\ \E r \in References \ OnDisk :
          /\ \E q \in OnDisk : q[1] = r[1] /\ q[2] > r[2]
          /\ \E q \in OnDisk : q[1] > r[1]
    /\ Len(res.body) = 3

\* The ids an export request asks for, as a set (none when ids is absent).
WantedIds == IF Truthy(req.body.ids)
             THEN {req.body.ids.v[k] : k \in 1..Len(req.body.ids.v)} ELSE {}

\* The positions of the stored records the last export request selects: all
\* of them when no id is asked for, else those whose id is asked for.
KeptPositions ==
    LET all == Records(before.applicants)
    IN IF WantedIds = {} THEN 1..Len(all)
       ELSE {i \in 1..Len(all) : "id" \in DOMAIN all[i] /\ all[i]["id"] \in WantedIds}

\* The stored records at those positions, in stored order.
SelectedRecords ==
    [n \in 1..Cardinality(KeptPositions) |->
        Records(before.applicants)[CHOOSE i \in KeptPositions :
                                      Cardinality({k \in KeptPositions : k <= i}) = n]]

\* C11: an export whose reads succeed is answered 200; its applicants are the
\* whole stored collection when ids is absent or empty, else exactly the
\* stored records whose id is in ids, in stored order (none when no id
\* matches); a backup carries the stored settings document, a zip summarises
\* the same selection; neither file is changed.
C11_ExportSelectsByIds ==
    (req.op = "export" /\ req.body.type \in {"backup", "zip"} /\ fault = "none") =>
        /\ res.status = 200
        /\ req.body.type = "backup" =>
              /\ res.type = "attachment"
              /\ res.body.valid
              /\ res.body.doc.applicants = Arr(SelectedRecords)
              /\ res.body.doc.settings = JSONparse(before.settings).value
        /\ req.body.type = "zip" =>
              res.body[1].source = txtContent(SelectedRecords)
        /\ ioLog = <<Rd("applicants", TRUE), Rd("settings", TRUE)>>
        /\ Store = before

\* C11 witness: a backup of two stored records filtered by two ids, one of
\* them unknown, carries the second record only.
C11_Witness ==
    /\ req.op = "export" /\ req.body.type = "backup" /\ res.status = 200
    /\ Cardinality(WantedIds) = 2
    /\ Len(Records(before.applicants)) = 2
    /\ KeptPositions = {2}
    /\ res.body.doc.applicants.v = <<Records(before.applicants)[2]>>

\* C11 witness for an ids set that matches no stored record.
C11_WitnessNoMatch ==
    /\ req.op = "export" /\ req.body.type = "backup" /\ res.status = 200
    /\ WantedIds # {}
    /\ Len(Records(before.applicants)) = 2
    /\ res.body.doc.applicants = Arr(<<>>)

====
